---- MODULE Spec2Model ----
(***************************************************************************)
(* The first-aid supplies page of the rescue readiness tracker:            *)
(* pages/1_First-Aid_Supplies.py.  The Google sheet is the store; every    *)
(* button handler reads a whole worksheet, edits the copy and writes the   *)
(* whole worksheet back.  Each browser session (operator) runs its         *)
(* handlers in its own script thread, so the reads and the writes of two   *)
(* operators interleave.                                                   *)
(***************************************************************************)
EXTENDS Integers, Sequences, FiniteSets, TLC

VARIABLES
    supplies,   \* worksheet first_aid_supplies: the rows, in sheet order
    audits,     \* worksheet first_aid_audits: the rows, in sheet order
    clock,      \* the next value pd.Timestamp.today() returns
    today,      \* pd.Timestamp.today().date(), as a day of the year
    pc,         \* per operator: where its session is in its handler
    req,        \* per operator: the arguments the form passed to the handler
    df,         \* per operator: the supplies rows its handler read
    audit_df,   \* per operator: the audit rows submit_audit will write
    call,       \* arguments of a direct call of mark_removed (SpecRemove)
    row,        \* a snapshot row handed to get_status (SpecStatus)
    status,     \* what get_status returned for it
    overview    \* the table the overview tab displays (SpecSnapshot)

vars == <<supplies, audits, clock, today, pc, req, df, audit_df, call, row, status, overview>>

(***************************************************************************)
(* Bounds of the model                                                     *)
(***************************************************************************)
\* forms open only while fewer than MaxClock - 1 timestamps have been drawn
MaxClock == 2
\* the add form's quantity slider is cut at MaxQuantAdd
MaxQuantAdd == 1
\* the quantities handed to get_status range over 0..MaxQuantity
MaxQuantity == 3
\* the ledgers handed to a direct call of mark_removed have MaxLots rows
MaxLots == 3

Operators == {"op1", "op2"}

(***************************************************************************)
(* Values                                                                  *)
(***************************************************************************)
\* an empty cell: pandas reads it as NaN, isna() is true of it
NaN == 0
\* pd.to_datetime of an empty cell
NaT == 0
\* the 30 days of pd.Timedelta("30D")
Horizon == 30

\* first day of month m as a day of the year: what format="%m-%Y" parses to
MonthStart(m) == CASE m = 1 -> 1 [] m = 2 -> 32 [] m = 3 -> 60 [] m = 4 -> 91

\* the month a date falls in: the sheet's Expiration Date column shows MM-YYYY
MonthOf(d) == IF d < 32 THEN 1 ELSE IF d < 60 THEN 2 ELSE IF d < 91 THEN 3 ELSE 4

\* pd.to_datetime(column, format="%m-%Y").dt.date of one cell
to_datetime(cell) == IF cell = NaN THEN NaT ELSE MonthStart(cell)

Range(s) == {s[i] : i \in 1..Len(s)}

RECURSIVE Sum(_)
Sum(s) == IF s = <<>> THEN 0 ELSE Head(s) + Sum(Tail(s))

Min(a, b) == IF a < b THEN a ELSE b

(***************************************************************************)
(* The worksheets the page only reads                                      *)
(***************************************************************************)
\* first_aid_operational_limits as read: Max. Quantity may be empty
op_sheet ==
    << [inv |-> "Stockroom", loc |-> "ShelfA", item |-> "Bandages", min |-> 2, max |-> 10],
       [inv |-> "Stockroom", loc |-> "ShelfB", item |-> "Bandages", min |-> 1, max |-> 2],
       [inv |-> "Kit",       loc |-> "Pouch",  item |-> "Gloves",   min |-> 1, max |-> NaN] >>

\* first_aid_inventories: the Inventory column
inventory_sheet == <<"Stockroom", "Kit">>

\* the dates the operator can pick in the add form's date input
DateInputs == {15, 32}

Lot(inv, loc, item, exp, added, removed, by) ==
    [inv |-> inv, loc |-> loc, item |-> item, exp |-> exp,
     added |-> added, removed |-> removed, removedBy |-> by]

\* the supplies worksheet when the page is first opened
InitSupplies ==
    << Lot("Stockroom", "ShelfA", "Bandages", 1, 0, NaN, ""),
       Lot("Stockroom", "ShelfA", "Bandages", 2, 0, NaN, ""),
       Lot("Stockroom", "ShelfB", "Bandages", 1, 0, NaN, ""),
       Lot("Kit",       "Pouch",  "Gloves",   2, 0, NaN, "") >>

(***************************************************************************)
(* Reading and summarising                                                 *)
(***************************************************************************)
\* process_supplies without the Date Removed filter of line 61
process_supplies_unfiltered(sheet) ==
    [i \in 1..Len(sheet) |-> [sheet[i] EXCEPT !.exp = to_datetime(@)]]

\* process_supplies: keep the rows not removed, parse the expiration date
process_supplies(sheet) ==
    LET active == SelectSeq(sheet, LAMBDA r : r.removed = NaN)
    IN  [i \in 1..Len(active) |-> [active[i] EXCEPT !.exp = to_datetime(@)]]

\* get_operational_limits: Max. Quantity defaults to ten times the minimum
get_operational_limits ==
    [i \in 1..Len(op_sheet) |->
        [op_sheet[i] EXCEPT !.max = IF @ = NaN THEN op_sheet[i].min * 10 ELSE @]]

\* get_status with < for <= in the Running Low rule
get_status_strict_min(r) ==
    IF r.remaining = 0 THEN "Out of Stock"
    ELSE IF r.expired > 0 THEN "Expired"
    ELSE IF r.remaining < r.min THEN "Running Low"
    ELSE IF r.expiring > 0 THEN "Expiring"
    ELSE IF r.remaining < r.max THEN "Understocked"
    ELSE "Fully Stocked"

\* get_status with the Running Low rule ahead of the Expired rule
get_status_low_first(r) ==
    IF r.remaining = 0 THEN "Out of Stock"
    ELSE IF r.remaining <= r.min THEN "Running Low"
    ELSE IF r.expired > 0 THEN "Expired"
    ELSE IF r.expiring > 0 THEN "Expiring"
    ELSE IF r.remaining < r.max THEN "Understocked"
    ELSE "Fully Stocked"

\* get_status, lines 67-79
get_status(r) ==
    IF r.remaining = 0 THEN "Out of Stock"
    ELSE IF r.expired > 0 THEN "Expired"
    ELSE IF r.remaining <= r.min THEN "Running Low"
    ELSE IF r.expiring > 0 THEN "Expiring"
    ELSE IF r.remaining < r.max THEN "Understocked"
    ELSE "Fully Stocked"

\* the Expired and Expiring columns of one active row
is_expired(r, day) == r.exp # NaT /\ r.exp < day
is_expiring(r, day) == r.exp # NaT /\ r.exp < day + Horizon /\ r.exp > day

\* groupby(Inventory, Location, Item).agg(count, sum, sum) of the active rows
group_keys(sdf) == {<<sdf[i].inv, sdf[i].loc, sdf[i].item>> : i \in 1..Len(sdf)}

group_agg(sdf, day) ==
    [k \in group_keys(sdf) |->
        LET of_k == SelectSeq(sdf, LAMBDA r : <<r.inv, r.loc, r.item>> = k)
        IN  [quantity |-> Sum([i \in 1..Len(of_k) |-> 1]),
             expiring |-> Sum([i \in 1..Len(of_k) |-> IF is_expiring(of_k[i], day) THEN 1 ELSE 0]),
             expired  |-> Sum([i \in 1..Len(of_k) |-> IF is_expired(of_k[i], day) THEN 1 ELSE 0])]]

\* get_alert_df with how="inner" for how="right" in the merge of line 140
get_alert_df_inner(sheet, day) ==
    LET supply_df == process_supplies(sheet)
        agg == group_agg(supply_df, day)
        op_df == SelectSeq(get_operational_limits,
                           LAMBDA r : <<r.inv, r.loc, r.item>> \in DOMAIN agg)
        merged(n) ==
            LET g == agg[<<op_df[n].inv, op_df[n].loc, op_df[n].item>>]
            IN  [inv |-> op_df[n].inv, loc |-> op_df[n].loc, item |-> op_df[n].item,
                 quantity |-> g.quantity, expired |-> g.expired, expiring |-> g.expiring,
                 min |-> op_df[n].min, max |-> op_df[n].max,
                 remaining |-> g.quantity - g.expired]
    IN  [n \in 1..Len(op_df) |->
            [inv |-> merged(n).inv, loc |-> merged(n).loc, item |-> merged(n).item,
             quantity |-> merged(n).quantity, expired |-> merged(n).expired,
             expiring |-> merged(n).expiring, min |-> merged(n).min, max |-> merged(n).max,
             remaining |-> merged(n).remaining, status |-> get_status(merged(n))]]

\* get_alert_df: the groups right-merged onto the limits, empty cells filled with 0
get_alert_df(sheet, day) ==
    LET supply_df == process_supplies(sheet)
        op_df == get_operational_limits
        agg == group_agg(supply_df, day)
        merged(n) ==
            LET k == <<op_df[n].inv, op_df[n].loc, op_df[n].item>>
                g == IF k \in DOMAIN agg THEN agg[k]
                     ELSE [quantity |-> 0, expiring |-> 0, expired |-> 0]
            IN  [inv |-> op_df[n].inv, loc |-> op_df[n].loc, item |-> op_df[n].item,
                 quantity |-> g.quantity, expired |-> g.expired, expiring |-> g.expiring,
                 min |-> op_df[n].min, max |-> op_df[n].max,
                 remaining |-> g.quantity - g.expired]
    IN  [n \in 1..Len(op_df) |->
            [inv |-> merged(n).inv, loc |-> merged(n).loc, item |-> merged(n).item,
             quantity |-> merged(n).quantity, expired |-> merged(n).expired,
             expiring |-> merged(n).expiring, min |-> merged(n).min, max |-> merged(n).max,
             remaining |-> merged(n).remaining, status |-> get_status(merged(n))]]

(***************************************************************************)
(* mark_removed                                                            *)
(***************************************************************************)
\* remove_df: groupby(Item, Expiration Date).size(); groupby drops the keys
\* with an empty expiration date
remove_groups(targets) == {t \in Range(targets) : t[2] # NaT}

group_size(targets, k) == Cardinality({n \in 1..Len(targets) : targets[n] = k})

\* the mask of lines 305-309
matches(r, inv, item, expiration_date) ==
    /\ r.inv = inv
    /\ r.item = item
    /\ to_datetime(r.exp) = expiration_date
    /\ r.removed = NaN

\* .head(quant).index: the first quant rows of the mask, in sheet order
head_idxs(sheet, inv, item, expiration_date, quant) ==
    {i \in 1..Len(sheet) :
        /\ matches(sheet[i], inv, item, expiration_date)
        /\ Cardinality({j \in 1..(i - 1) : matches(sheet[j], inv, item, expiration_date)}) < quant}

\* lines 311-312 for one group
mark_group(sheet, inv, k, quant, signature, ts) ==
    LET idxs == head_idxs(sheet, inv, k[1], k[2], quant)
    IN  [i \in 1..Len(sheet) |->
            IF i \in idxs THEN [sheet[i] EXCEPT !.removed = ts, !.removedBy = signature]
            ELSE sheet[i]]

\* the loop over remove_df; the groups have disjoint masks, so the order in
\* which the loop meets them does not show in its result
RECURSIVE mark_loop(_, _, _, _, _, _)
mark_loop(sheet, inv, groups, targets, signature, ts) ==
    IF groups = {} THEN sheet
    ELSE LET k == CHOOSE g \in groups : TRUE
         IN  mark_loop(mark_group(sheet, inv, k, group_size(targets, k), signature, ts),
                       inv, groups \ {k}, targets, signature, ts)

\* the table mark_removed writes, from the table it read
mark_removed(sheet, inv, targets, signature, ts) ==
    mark_loop(sheet, inv, remove_groups(targets), targets, signature, ts)

(***************************************************************************)
(* The sessions                                                            *)
(***************************************************************************)
NoReq == [kind |-> "none", inv |-> "", loc |-> "", item |-> "", expd |-> NaT,
          quant |-> 0, targets |-> <<>>, rows |-> <<>>, ts |-> 0, ats |-> 0]

NoCall == [inv |-> "", item |-> "", expd |-> NaT, quant |-> 0, before |-> <<>>, done |-> FALSE]

NoRow == [remaining |-> 0, expired |-> 0, expiring |-> 0, min |-> 0, max |-> 0]

Idle(o) ==
    /\ pc' = [pc EXCEPT ![o] = "idle"]
    /\ req' = [req EXCEPT ![o] = NoReq]
    /\ df' = [df EXCEPT ![o] = <<>>]
    /\ audit_df' = [audit_df EXCEPT ![o] = <<>>]

\* the statuses the add form's slider drops, by the position of its two ends
add_filter_dropped(min_filter, max_filter) ==
    (IF min_filter > 1 THEN {"Out of Stock"} ELSE {})
    \cup (IF min_filter > 2 THEN {"Running Low"} ELSE {})
    \cup (IF min_filter > 3 THEN {"Understocked"} ELSE {})
    \cup (IF max_filter < 4 THEN {"Fully Stocked"} ELSE {})
    \cup (IF max_filter < 3 THEN {"Understocked"} ELSE {})
    \cup (IF max_filter < 2 THEN {"Running Low"} ELSE {})

\* add_form: the operator picks the item, the date and the quantity and
\* presses "Add Item(s)"
add_form(o) ==
    /\ pc[o] = "idle"
    /\ clock < MaxClock
    /\ \E n \in 1..Len(inventory_sheet), min_filter \in 1..4, max_filter \in 1..4 :
        /\ min_filter <= max_filter
        /\ LET inv == inventory_sheet[n]
               inv_df == SelectSeq(get_alert_df(supplies, today),
                            LAMBDA r : r.inv = inv
                                       /\ r.status \notin add_filter_dropped(min_filter, max_filter))
               items == {r.item : r \in {x \in Range(inv_df) : x.quantity < x.max}}
           IN  \E item \in items, expiration_date \in DateInputs :
                 LET first == SelectSeq(inv_df, LAMBDA r : r.item = item)[1]
                     max_quant_add == first.max - first.quantity
                 IN  /\ expiration_date >= today
                     /\ \E quant \in 0..Min(max_quant_add, MaxQuantAdd) :
                          req' = [req EXCEPT ![o] =
                                    [NoReq EXCEPT !.kind = "add", !.inv = inv, !.loc = first.loc,
                                                  !.item = item, !.expd = expiration_date,
                                                  !.quant = quant]]
    /\ pc' = [pc EXCEPT ![o] = "add_read"]
    /\ UNCHANGED <<supplies, audits, clock, today, df, audit_df, call, row, status, overview>>

\* add_items, line 218: conn.read; line 224: the timestamp of the new rows
add_items_read(o) ==
    /\ pc[o] = "add_read"
    /\ df' = [df EXCEPT ![o] = supplies]
    /\ req' = [req EXCEPT ![o].ts = clock]
    /\ clock' = clock + 1
    /\ pc' = [pc EXCEPT ![o] = "add_write"]
    /\ UNCHANGED <<supplies, audits, today, audit_df, call, row, status, overview>>

\* the rows add_items appends; the sheet keeps the month of the date
new_items(r) ==
    [i \in 1..r.quant |-> Lot(r.inv, r.loc, r.item, MonthOf(r.expd), r.ts, NaN, "")]

\* add_items, lines 226-227: pd.concat and conn.update
add_items_write(o) ==
    /\ pc[o] = "add_write"
    /\ supplies' = df[o] \o new_items(req[o])
    /\ Idle(o)
    /\ UNCHANGED <<audits, clock, today, call, row, status, overview>>

\* remove_form: the operator picks the item, one of its expiration dates and
\* a quantity up to the count shown, and presses "Remove Item(s)"
remove_form(o) ==
    /\ pc[o] = "idle"
    /\ clock < MaxClock
    /\ \E n \in 1..Len(inventory_sheet) :
         LET inv == inventory_sheet[n]
             inv_df == SelectSeq(process_supplies(supplies), LAMBDA r : r.inv = inv)
         IN  \E item \in {r.item : r \in Range(inv_df)} :
               LET item_df == SelectSeq(inv_df, LAMBDA r : r.item = item)
               IN  \E expiration_date \in {r.exp : r \in Range(item_df)} \ {NaT} :
                     LET current_quant ==
                            Len(SelectSeq(item_df, LAMBDA r : r.exp = expiration_date))
                     IN  \E quant \in 0..current_quant :
                           req' = [req EXCEPT ![o] =
                                     [NoReq EXCEPT !.kind = "remove", !.inv = inv, !.item = item,
                                                   !.expd = expiration_date, !.quant = quant,
                                                   !.targets = [i \in 1..quant |->
                                                                   <<item, expiration_date>>]]]
    /\ pc' = [pc EXCEPT ![o] = "rm_read"]
    /\ UNCHANGED <<supplies, audits, clock, today, df, audit_df, call, row, status, overview>>

\* mark_removed, line 297: conn.read; line 311: the timestamp of the removal
mark_removed_read(o) ==
    /\ pc[o] = "rm_read"
    /\ df' = [df EXCEPT ![o] = supplies]
    /\ req' = [req EXCEPT ![o].ts = clock]
    /\ clock' = clock + 1
    /\ pc' = [pc EXCEPT ![o] = "rm_write"]
    /\ UNCHANGED <<supplies, audits, today, audit_df, call, row, status, overview>>

\* mark_removed, lines 299-314: the loop and conn.update; submit_audit goes on
\* to write its audit rows
mark_removed_write(o) ==
    /\ pc[o] = "rm_write"
    /\ supplies' = mark_removed(df[o], req[o].inv, req[o].targets, o, req[o].ts)
    /\ IF req[o].kind = "audit"
       THEN /\ pc' = [pc EXCEPT ![o] = "audit_write"]
            /\ UNCHANGED <<req, df, audit_df>>
       ELSE Idle(o)
    /\ UNCHANGED <<audits, clock, today, call, row, status, overview>>

\* audit_inventory: the checklist of one inventory, a table per location of the
\* limits sheet
loc_audit(sheet, inv, loc) ==
    LET loc_df == SelectSeq(process_supplies(sheet), LAMBDA r : r.inv = inv /\ r.loc = loc)
    IN  [i \in 1..Len(loc_df) |->
            [loc |-> loc, item |-> loc_df[i].item, exp |-> loc_df[i].exp, present |-> FALSE]]

\* Series.unique(): the values in the order they first appear
RECURSIVE unique(_)
unique(s) ==
    IF s = <<>> THEN <<>>
    ELSE LET seen == unique(SubSeq(s, 1, Len(s) - 1))
         IN  IF s[Len(s)] \in Range(seen) THEN seen ELSE Append(seen, s[Len(s)])

\* the locations of an inventory in the limits sheet
locations(inv) ==
    LET of_inv == SelectSeq(get_operational_limits, LAMBDA r : r.inv = inv)
    IN  unique([i \in 1..Len(of_inv) |-> of_inv[i].loc])

\* loc_audits, one table after the other in the order submit_audit walks them
RECURSIVE loc_audits(_, _, _)
loc_audits(sheet, inv, locs) ==
    IF locs = <<>> THEN <<>>
    ELSE loc_audit(sheet, inv, Head(locs)) \o loc_audits(sheet, inv, Tail(locs))

\* audit_inventory: the operator ticks the rows that are present and presses
\* "Submit Audit"
audit_inventory(o) ==
    /\ pc[o] = "idle"
    /\ clock < MaxClock
    /\ \E n \in 1..Len(inventory_sheet) :
         LET inv == inventory_sheet[n]
             shown == loc_audits(supplies, inv, locations(inv))
         IN  \E ticks \in [1..Len(shown) -> BOOLEAN] :
               req' = [req EXCEPT ![o] =
                         [NoReq EXCEPT !.kind = "audit", !.inv = inv,
                                       !.rows = [i \in 1..Len(shown) |->
                                                    [shown[i] EXCEPT !.present = ticks[i]]]]]
    /\ pc' = [pc EXCEPT ![o] = "audit_read"]
    /\ UNCHANGED <<supplies, audits, clock, today, df, audit_df, call, row, status, overview>>

\* submit_audit, lines 405-419: conn.read of the audits, the rows appended to
\* the copy, the missing items collected
submit_audit_read(o) ==
    /\ pc[o] = "audit_read"
    /\ LET r == req[o]
           stamped == [i \in 1..Len(r.rows) |->
                          [inv |-> r.inv, loc |-> r.rows[i].loc, item |-> r.rows[i].item,
                           exp |-> r.rows[i].exp, present |-> r.rows[i].present,
                           dateAudited |-> clock, auditedBy |-> o]]
           missing == SelectSeq(r.rows, LAMBDA x : x.present = FALSE)
       IN  /\ audit_df' = [audit_df EXCEPT ![o] = audits \o stamped]
           /\ req' = [req EXCEPT ![o].ats = clock,
                                 ![o].targets = [i \in 1..Len(missing) |->
                                                    <<missing[i].item, missing[i].exp>>]]
    /\ clock' = clock + 1
    /\ pc' = [pc EXCEPT ![o] = "rm_read"]
    /\ UNCHANGED <<supplies, audits, today, df, call, row, status, overview>>

\* submit_audit, line 424: conn.update of the audits
submit_audit_write(o) ==
    /\ pc[o] = "audit_write"
    /\ audits' = audit_df[o]
    /\ Idle(o)
    /\ UNCHANGED <<supplies, clock, today, call, row, status, overview>>

\* conn.update raises (the sheet API refuses or the network fails): nothing
\* is written and the exception ends the handler
update_fails(o) ==
    /\ pc[o] \in {"add_write", "rm_write", "audit_write"}
    /\ Idle(o)
    /\ UNCHANGED <<supplies, audits, clock, today, call, row, status, overview>>

Init ==
    /\ supplies = InitSupplies
    /\ audits = <<>>
    /\ clock = 1
    /\ today = 15
    /\ pc = [o \in Operators |-> "idle"]
    /\ req = [o \in Operators |-> NoReq]
    /\ df = [o \in Operators |-> <<>>]
    /\ audit_df = [o \in Operators |-> <<>>]
    /\ call = NoCall
    /\ row = NoRow
    /\ status = "none"
    /\ overview = <<>>

Next ==
    \E o \in Operators :
        \/ add_form(o)
        \/ add_items_read(o)
        \/ add_items_write(o)
        \/ remove_form(o)
        \/ mark_removed_read(o)
        \/ mark_removed_write(o)
        \/ audit_inventory(o)
        \/ submit_audit_read(o)
        \/ submit_audit_write(o)
        \/ update_fails(o)

Spec == Init /\ [][Next]_vars

(***************************************************************************)
(* get_status on its own: every row of quantities up to MaxQuantity        *)
(***************************************************************************)
StatusInputs ==
    [remaining : 0..MaxQuantity, expired : 0..MaxQuantity, expiring : 0..MaxQuantity,
     min : 0..MaxQuantity, max : 0..MaxQuantity]

InitStatus ==
    /\ supplies = InitSupplies
    /\ audits = <<>>
    /\ clock = 1
    /\ today = 15
    /\ pc = [o \in Operators |-> "idle"]
    /\ req = [o \in Operators |-> NoReq]
    /\ df = [o \in Operators |-> <<>>]
    /\ audit_df = [o \in Operators |-> <<>>]
    /\ call = NoCall
    /\ row \in StatusInputs
    /\ status = "none"
    /\ overview = <<>>

\* line 151: alert_df.apply(get_status, axis=1) on one row
apply_get_status ==
    /\ status = "none"
    /\ status' = get_status(row)
    /\ UNCHANGED <<supplies, audits, clock, today, pc, req, df, audit_df, call, row, overview>>

NextStatus == apply_get_status

SpecStatus == InitStatus /\ [][NextStatus]_vars

(***************************************************************************)
(* mark_removed on its own: one call, by one operator, on every ledger of  *)
(* MaxLots bandage lots of the stockroom                                   *)
(***************************************************************************)
LedgerInputs ==
    [1..MaxLots -> {Lot("Stockroom", "ShelfA", "Bandages", exp, 0, removed,
                        IF removed = NaN THEN "" ELSE "op2") :
                    exp \in {NaN, 1, 2, 3}, removed \in {NaN, 1}}]

InitRemove ==
    /\ supplies \in LedgerInputs
    /\ audits = <<>>
    /\ clock = 2
    /\ today = 15
    /\ pc = [o \in Operators |-> "idle"]
    /\ req = [o \in Operators |-> NoReq]
    /\ df = [o \in Operators |-> <<>>]
    /\ audit_df = [o \in Operators |-> <<>>]
    /\ call = NoCall
    /\ row = NoRow
    /\ status = "none"
    /\ overview = <<>>

\* mark_removed(inv, [item] * quant, [expiration_date] * quant, signature), read
\* and write with no other session in between; an expiration date left out is
\* passed as the empty value
call_mark_removed ==
    /\ ~call.done
    /\ \E inv \in {"Stockroom", "Kit"}, expiration_date \in {NaT, 1, 32, 60},
          quant \in 0..MaxLots :
         /\ supplies' = mark_removed(supplies, inv,
                                     [i \in 1..quant |-> <<"Bandages", expiration_date>>],
                                     "op1", clock)
         /\ call' = [inv |-> inv, item |-> "Bandages", expd |-> expiration_date,
                     quant |-> quant, before |-> supplies, done |-> TRUE]
    /\ clock' = clock + 1
    /\ UNCHANGED <<audits, today, pc, req, df, audit_df, row, status, overview>>

NextRemove == call_mark_removed

SpecRemove == InitRemove /\ [][NextRemove]_vars

(***************************************************************************)
(* The overview tab on its own: the snapshot of every ledger of MaxLots    *)
(* stockroom bandage lots, on a mid-month day and on the first of a month  *)
(***************************************************************************)
\* where a status stands when Python compares the strings
alpha_rank(s) ==
    CASE s = "Expired" -> 1 [] s = "Expiring" -> 2 [] s = "Fully Stocked" -> 3
      [] s = "Out of Stock" -> 4 [] s = "Running Low" -> 5 [] s = "Understocked" -> 6

\* sort_values("Status", ascending=True): the rows in ascending order of the
\* status string; the default sort is not stable, so rows of one status come
\* in any order
sort_values(t) ==
    {[i \in 1..Len(t) |-> t[p[i]]] :
        p \in {q \in [1..Len(t) -> 1..Len(t)] :
                 /\ \A i, j \in 1..Len(t) : i # j => q[i] # q[j]
                 /\ \A i, j \in 1..Len(t) :
                      i < j => alpha_rank(t[q[i]].status) <= alpha_rank(t[q[j]].status)}}

\* the days the page is opened on: 15 January and 1 February
Todays == {15, 32}

\* ShelfC is a location the limits sheet has no row for
SnapshotLedgers ==
    [1..MaxLots -> {Lot("Stockroom", loc, "Bandages", exp, 0, removed,
                        IF removed = NaN THEN "" ELSE "op2") :
                    loc \in {"ShelfA", "ShelfB", "ShelfC"}, exp \in {1, 2, 3},
                    removed \in {NaN, 1}}]

InitSnapshot ==
    /\ supplies \in SnapshotLedgers
    /\ audits = <<>>
    /\ clock = 2
    /\ today \in Todays
    /\ pc = [o \in Operators |-> "idle"]
    /\ req = [o \in Operators |-> NoReq]
    /\ df = [o \in Operators |-> <<>>]
    /\ audit_df = [o \in Operators |-> <<>>]
    /\ call = NoCall
    /\ row = NoRow
    /\ status = "none"
    /\ overview = <<>>

\* display_inventory, lines 188-209: the snapshot, sorted, in the "All" tab
display_inventory ==
    /\ overview = <<>>
    /\ overview' \in sort_values(get_alert_df(supplies, today))
    /\ UNCHANGED <<supplies, audits, clock, today, pc, req, df, audit_df, call, row, status>>

NextSnapshot == display_inventory

SpecSnapshot == InitSnapshot /\ [][NextSnapshot]_vars

(***************************************************************************)
(* Properties                                                              *)
(***************************************************************************)
\* the rows of a sheet that are not marked removed
ActiveIdxs(sheet) == {i \in 1..Len(sheet) : sheet[i].removed = NaN}

\* the rows marked removed in after that were not in before
NewlyRemoved(before, after) ==
    {i \in 1..Len(after) : /\ after[i].removed # NaN
                           /\ (i > Len(before) \/ before[i].removed = NaN)}

\* since operator o read its snapshot, another removal has been written: the
\* sheet is o's snapshot with more rows marked removed
OvertakenByRemoval(o) ==
    /\ df[o] # supplies
    /\ Len(supplies) = Len(df[o])
    /\ \A i \in 1..Len(supplies) :
         \/ supplies[i] = df[o][i]
         \/ /\ df[o][i].removed = NaN
            /\ supplies[i].removed # NaN
            /\ supplies[i] = [df[o][i] EXCEPT !.removed = supplies[i].removed,
                                              !.removedBy = supplies[i].removedBy]

\* C1: when two removals have read the same supplies snapshot, the second one
\* to write is rejected and the sheet keeps only the first one's removals: a
\* removal whose snapshot another removal has overtaken never changes the sheet.
C1_StaleWriteRejected ==
    [][\A o \in Operators :
         (/\ pc[o] = "rm_write"
          /\ req[o].kind = "remove"
          /\ pc'[o] # "rm_write"
          /\ OvertakenByRemoval(o))
            => supplies' = supplies]_vars

\* C2: the ledger is append-only under every interleaving: no step deletes a
\* row or changes which lot a row is, and a row marked removed keeps its
\* Date Removed and Removed By.
C2_AppendOnly ==
    [][/\ Len(supplies') >= Len(supplies)
       /\ \A i \in 1..Len(supplies) :
            i <= Len(supplies') =>
               /\ supplies'[i].inv = supplies[i].inv
               /\ supplies'[i].loc = supplies[i].loc
               /\ supplies'[i].item = supplies[i].item
               /\ supplies'[i].exp = supplies[i].exp
               /\ supplies'[i].added = supplies[i].added
               /\ (supplies[i].removed # NaN =>
                      /\ supplies'[i].removed = supplies[i].removed
                      /\ supplies'[i].removedBy = supplies[i].removedBy)]_vars

\* C3: the status of a row is the first rule that matches, in the order
\* remaining = 0, expired > 0, remaining <= min, expiring > 0, remaining < max,
\* otherwise fully stocked; remaining = 0 is out of stock whatever else holds.
C3_StatusRules ==
    status # "none" =>
        /\ (row.remaining = 0 => status = "Out of Stock")
        /\ (row.remaining # 0 /\ row.expired > 0 => status = "Expired")
        /\ (row.remaining # 0 /\ row.expired = 0 /\ row.remaining <= row.min
               => status = "Running Low")
        /\ (row.remaining # 0 /\ row.expired = 0 /\ row.remaining > row.min
               /\ row.expiring > 0 => status = "Expiring")
        /\ (row.remaining # 0 /\ row.expired = 0 /\ row.remaining > row.min
               /\ row.expiring = 0 /\ row.remaining < row.max => status = "Understocked")
        /\ (row.remaining # 0 /\ row.expired = 0 /\ row.remaining > row.min
               /\ row.expiring = 0 /\ row.remaining >= row.max => status = "Fully Stocked")

\* a row with nothing remaining and expired and expiring lots, classified
C3_Witness ==
    status = "Out of Stock" /\ row.remaining = 0 /\ row.expired > 0 /\ row.expiring > 0

\* the snapshot rows of the example: limits 2 and 10, 3 active lots, 1 expired
ExampleRows ==
    {r \in Range(get_alert_df(supplies, today)) :
        r.min = 2 /\ r.max = 10 /\ r.quantity = 3 /\ r.expired = 1 /\ r.remaining = 2}

\* C4 as written: a key with limits 2 and 10 and 3 active lots of which 1 is
\* expired has status Running Low.
C4_ExampleRunningLow == \A r \in ExampleRows : r.status = "Running Low"

\* C4 amended: a key with limits 2 and 10 and 3 active lots of which 1 is
\* expired has status Expired, the rule before Running Low.
C4_ExampleExpired == \A r \in ExampleRows : r.status = "Expired"

\* the example's ledger: three active lots under the key, one of them expired
C4_Witness == ~call.done /\ ExampleRows # {} /\ Cardinality(ActiveIdxs(supplies)) = 3

\* C8: for every key of the limits the snapshot's Quantity is the number of
\* supplies rows with that key and no Date Removed.
C8_QuantityIsActiveCount ==
    LET snap == get_alert_df(supplies, today)
    IN  \A n \in 1..Len(snap) :
          snap[n].quantity =
             Cardinality({i \in ActiveIdxs(supplies) :
                            /\ supplies[i].inv = snap[n].inv
                            /\ supplies[i].item = snap[n].item
                            /\ supplies[i].loc = snap[n].loc})

\* an Add and a Remove have both been written, and a key still has lots
C8_Witness ==
    /\ \E i \in 1..Len(supplies) : supplies[i].removed # NaN
    /\ \E i \in 1..Len(supplies) : supplies[i].added # 0 /\ supplies[i].removed = NaN
    /\ \E r \in Range(get_alert_df(supplies, today)) : r.quantity >= 2

\* a date is no later than another; an unknown expiration date sorts last
NoLater(a, b) == b = NaN \/ (a # NaN /\ a <= b)

\* C5: a removal of quantity q with the expiration date left out marks removed
\* the q active lots of the inventory and item that expire soonest, unknown
\* expiration last: from lots expiring Jan, Mar, Feb and quantity 2, the lots
\* expiring Jan and Feb.
C5_OmittedTakesSoonest ==
    (call.done /\ call.expd = NaT) =>
        LET pool == {i \in ActiveIdxs(call.before) :
                        call.before[i].inv = call.inv /\ call.before[i].item = call.item}
            taken == NewlyRemoved(call.before, supplies)
        IN  call.quant <= Cardinality(pool) =>
              /\ taken \subseteq pool
              /\ Cardinality(taken) = call.quant
              /\ \A i \in taken, j \in pool \ taken :
                    NoLater(call.before[i].exp, call.before[j].exp)

\* the lots of a request that match it in a sheet
PoolOf(sheet, r) == {i \in 1..Len(sheet) : matches(sheet[i], r.inv, r.item, r.expd)}

\* C6: a removal whose pool, at the time it writes, is smaller than its quantity
\* leaves the sheet as it was; with a pool of at least quantity lots it marks
\* exactly quantity lots of the pool removed.  Stated for the removals whose
\* snapshot is still the sheet, where the pool read is the pool at write time.
C6_InsufficientStockRejected ==
    [][\A o \in Operators :
         (mark_removed_write(o) /\ req[o].kind = "remove" /\ df[o] = supplies) =>
            IF Cardinality(PoolOf(supplies, req[o])) < req[o].quant
            THEN supplies' = supplies
            ELSE /\ NewlyRemoved(supplies, supplies') \subseteq PoolOf(supplies, req[o])
                 /\ Cardinality(NewlyRemoved(supplies, supplies')) = req[o].quant]_vars

\* a removal of request r by operator o changed before into after by marking
\* only lots that were active and match the request
RemovalFrame(before, after, r, o) ==
    /\ Len(after) = Len(before)
    /\ \A i \in 1..Len(before) :
         \/ after[i] = before[i]
         \/ /\ before[i].removed = NaN
            /\ before[i].inv = r.inv
            /\ \E t \in Range(r.targets) :
                  before[i].item = t[1] /\ to_datetime(before[i].exp) = t[2]
            /\ after[i] = [before[i] EXCEPT !.removed = r.ts, !.removedBy = o]

\* C7: a removal changes only the lots it selects: each selected lot was
\* active, matches the request and gets Date Removed and Removed By; every
\* other row of the sheet is the same before and after the write, and the
\* number of rows is unchanged.
C7_RemovalFrame ==
    [][\A o \in Operators :
         mark_removed_write(o) => RemovalFrame(supplies, supplies', req[o], o)]_vars

\* the rows of a checklist ticked absent
AbsentRows(r) == {i \in 1..Len(r.rows) : ~r.rows[i].present}

\* C9: an audit with exactly one row marked absent marks exactly one active lot
\* of that row's item and expiration date removed, and an audit appends one
\* record per checked row, present or not, with the row's decision.
C9_AuditRemovesOneAndRecordsAll ==
    [][\A o \in Operators :
         /\ (mark_removed_write(o) /\ req[o].kind = "audit" /\ df[o] = supplies
               /\ Cardinality(AbsentRows(req[o])) = 1) =>
              LET a == req[o].rows[CHOOSE i \in AbsentRows(req[o]) : TRUE]
                  taken == NewlyRemoved(supplies, supplies')
              IN  /\ Cardinality(taken) = 1
                  /\ \A i \in taken : /\ supplies[i].item = a.item
                                      /\ to_datetime(supplies[i].exp) = a.exp
         /\ submit_audit_write(o) =>
              /\ Len(audits') = Len(audits) + Len(req[o].rows)
              /\ \A i \in 1..Len(audits) : audits'[i] = audits[i]
              /\ \A i \in 1..Len(req[o].rows) :
                    /\ audits'[Len(audits) + i].present = req[o].rows[i].present
                    /\ audits'[Len(audits) + i].item = req[o].rows[i].item]_vars

\* the handler of operator o's audit returns or raises in this step
AuditEnds(o) == req[o].kind = "audit" /\ pc[o] \in {"rm_write", "audit_write"} /\ pc'[o] = "idle"

\* the lots the audit of operator o marks removed in the table it read
DerivedRemovals(o) ==
    NewlyRemoved(df[o], mark_removed(df[o], req[o].inv, req[o].targets, o, req[o].ts))

\* C10: when submit_audit ends, by returning or by a failed write, either all
\* of its removals and all of its audit records are in the store or none of
\* them are.
C10_AuditAllOrNothing ==
    [][\A o \in Operators :
         AuditEnds(o) =>
            LET stored == {i \in DerivedRemovals(o) :
                              i <= Len(supplies') /\ supplies'[i].removed = req[o].ts
                              /\ supplies'[i].removedBy = o}
                records == {j \in 1..Len(audits') :
                              audits'[j].dateAudited = req[o].ats /\ audits'[j].auditedBy = o}
            IN  \/ stored = DerivedRemovals(o) /\ Cardinality(records) = Len(req[o].rows)
                \/ stored = {} /\ records = {}]_vars

\* the active lots of the sheet under the key of a snapshot row
ActiveOfKey(r) ==
    {i \in ActiveIdxs(supplies) :
        supplies[i].inv = r.inv /\ supplies[i].loc = r.loc /\ supplies[i].item = r.item}

\* C11: in the snapshot an active lot counts as expired exactly when its
\* expiration date is before today and as expiring exactly when it is today or
\* later and less than 30 days ahead; a lot expiring today counts as expiring.
C11_ExpiredExpiringCounts ==
    \A r \in Range(overview) :
        /\ r.expired =
              Cardinality({i \in ActiveOfKey(r) : to_datetime(supplies[i].exp) < today})
        /\ r.expiring =
              Cardinality({i \in ActiveOfKey(r) :
                              /\ today <= to_datetime(supplies[i].exp)
                              /\ to_datetime(supplies[i].exp) < today + Horizon})

\* C12: every key of the limits sheet is in the snapshot exactly once, and a
\* key with no active lot has all four quantities zero and status Out of Stock.
C12_EveryLimitKeyOnce ==
    overview # <<>> =>
        \A n \in 1..Len(op_sheet) :
            LET of_key == {m \in 1..Len(overview) :
                              /\ overview[m].inv = op_sheet[n].inv
                              /\ overview[m].loc = op_sheet[n].loc
                              /\ overview[m].item = op_sheet[n].item}
            IN  /\ Cardinality(of_key) = 1
                /\ \A m \in of_key :
                      ActiveOfKey(overview[m]) = {} =>
                         /\ overview[m].quantity = 0
                         /\ overview[m].expired = 0
                         /\ overview[m].expiring = 0
                         /\ overview[m].remaining = 0
                         /\ overview[m].status = "Out of Stock"

\* the overview is displayed with a key that has lots and a key that has none
C12_Witness ==
    /\ overview # <<>>
    /\ \E r \in Range(overview) : ActiveOfKey(r) = {} /\ r.status = "Out of Stock"
    /\ \E r \in Range(overview) : ActiveOfKey(r) # {} /\ r.quantity > 0

\* C13: a key with an active lot and no row in the limits sheet is still in
\* the snapshot.
C13_UnlimitedKeyShown ==
    overview # <<>> =>
        \A i \in ActiveIdxs(supplies) :
            \E r \in Range(overview) :
                r.inv = supplies[i].inv /\ r.loc = supplies[i].loc /\ r.item = supplies[i].item

\* the severity rank of a status, most urgent first
severity_rank(s) ==
    CASE s = "Out of Stock" -> 1 [] s = "Expired" -> 2 [] s = "Running Low" -> 3
      [] s = "Expiring" -> 4 [] s = "Understocked" -> 5 [] s = "Fully Stocked" -> 6

\* C14: the overview table is sorted by severity, most urgent first: of any
\* two rows the one with the more urgent status comes first.
C14_SortedBySeverity ==
    \A i, j \in 1..Len(overview) :
        i < j => severity_rank(overview[i].status) <= severity_rank(overview[j].status)

\* C15: a removal or audit with no target lot leaves every supplies row as it
\* was, also when another operator has written between its read and its write.
C15_EmptySelectionNoOp ==
    [][\A o \in Operators :
         (mark_removed_write(o) /\ req[o].targets = <<>>) => supplies' = supplies]_vars

\* C16: an Add of quantity q appends exactly q rows with the request's key and
\* expiration, Date Added now and Date Removed empty, and leaves every row
\* already in the sheet unchanged.
C16_AddAppends ==
    [][\A o \in Operators :
         add_items_write(o) =>
            /\ Len(supplies') = Len(supplies) + req[o].quant
            /\ \A i \in 1..Len(supplies) : supplies'[i] = supplies[i]
            /\ \A i \in (Len(supplies) + 1)..Len(supplies') :
                  supplies'[i] = Lot(req[o].inv, req[o].loc, req[o].item,
                                     MonthOf(req[o].expd), req[o].ts, NaN, "")]_vars

\* C17: a lot an audit marks removed is stored at the location of a checklist
\* row marked absent with its item and expiration date.
C17_AuditRemovesAtLocation ==
    [][\A o \in Operators :
         (mark_removed_write(o) /\ req[o].kind = "audit" /\ df[o] = supplies) =>
            \A i \in NewlyRemoved(supplies, supplies') :
               \E n \in AbsentRows(req[o]) :
                  /\ req[o].rows[n].loc = supplies[i].loc
                  /\ req[o].rows[n].item = supplies[i].item
                  /\ req[o].rows[n].exp = to_datetime(supplies[i].exp)]_vars

====
